---- MODULE Spec2Model ----
(***************************************************************************)
(* A model of RAG Desk (src/app.py): the chunker, the chunk ids, the index *)
(* rebuild, retrieval and the translation gate.                            *)
(*                                                                         *)
(* Text is a sequence of characters.  A character is one of the tokens     *)
(* below: "CR" is '\r', "LF" is '\n', "SP" is ' ', "a" and "b" are ASCII   *)
(* letters, "Z" is an ideograph of U+4E00..U+9FFF, "1" is a digit, "|",    *)
(* "p" and "c" are themselves, and a dotted token is a file suffix.        *)
(***************************************************************************)
EXTENDS Integers, Sequences, FiniteSets, TLC

\* ------------------------------------------------------------------ bounds
MaxLen == 4
MaxSize == 3

\* --------------------------------------------------------- program constants
CHUNK_SIZE == 700
CHUNK_OVERLAP == 120

\* ------------------------------------------------------------------- state
VARIABLES
    ck_in,       \* the text argument of the running chunk_text call
    ck_size,     \* its chunk_size argument
    ck_overlap,  \* its overlap argument
    ck_text,     \* the local text after line 107
    ck_start,    \* the local start
    ck_end,      \* the local end (0 before the first pass)
    ck_chunks,   \* the local chunks
    ck_seen,     \* the starts the loop head has been at
    ck_pc        \* "call", "loop", "done" (returned), "diverged" (loops forever)

ckVars == <<ck_in, ck_size, ck_overlap, ck_text, ck_start, ck_end, ck_chunks,
            ck_seen, ck_pc>>

VARIABLES
    tr_in,       \* the text argument of the translate_text call
    tr_lang,     \* its target_lang argument
    tr_env,      \* the environment get_translators ran in
    tr_text,     \* the local text after line 200
    tr_calls,    \* the provider handles invoked, in order
    tr_ret,      \* the value returned (NoneText before the return)
    tr_how,      \* "none", "unchanged" (gate), "translated", "fallback" (except)
    tr_pc        \* "call", "provider" (inside the provider call), "done"

trVars == <<tr_in, tr_lang, tr_env, tr_text, tr_calls, tr_ret, tr_how, tr_pc>>

VARIABLES
    id_key,      \* a (filename, page, chunk_index) of a rebuild
    id_out       \* the id line 156 formats for it (NoneText before)

idVars == <<id_key, id_out>>

VARIABLES
    rt_k,        \* the top_k argument of the retrieve call
    rt_res,      \* the store's response to col.query
    rt_asked,    \* the n_results of every store query issued, in order
    rt_out,      \* the list returned
    rt_pc        \* "call", "query", "done", "raised"

rtVars == <<rt_k, rt_res, rt_asked, rt_out, rt_pc>>

VARIABLES
    coll,        \* the named collection in the store
    rb_pc,       \* rebuild_index: "idle", "delete", "create", "load", "add"
    rb_dir,      \* its docs_dir argument
    rb_col,      \* its local col (a handle)
    rb_batch,    \* its ids/documents/metadatas lists
    rb_ret,      \* how the last rebuild request ended: [how, chunks, docs], how
                 \* "none", "refused" (the handler's st.error), "raised" or
                 \* "returned" (with the counts returned)
    rb_swallowed,\* whether the last delete step raised with the collection there
    h_pre,       \* history: the items the collection held when the request began
    h_done,      \* history: [any, items] of the last rebuild that returned
    h_added,     \* history: the latest rebuild_index call completed its add
    q_pc,        \* retrieve: "idle", "query"
    q_k,         \* its top_k argument
    q_col,       \* its local col (a handle)
    q_ret,       \* "none", "raised", "returned"
    q_out,       \* the list it returned
    q_fresh      \* history: the call began with no rebuild running, after one
                 \* that completed its add step, and none has begun since

ixVars == <<coll, rb_pc, rb_dir, rb_col, rb_batch, rb_ret, rb_swallowed, h_pre,
            h_done, h_added, q_pc, q_k, q_col, q_ret, q_out, q_fresh>>

vars == <<ckVars, trVars, idVars, rtVars, ixVars>>

\* What each part leaves alone.
ckOthers == <<trVars, idVars, rtVars, ixVars>>
trOthers == <<ckVars, idVars, rtVars, ixVars>>
idOthers == <<ckVars, trVars, rtVars, ixVars>>
rtOthers == <<ckVars, trVars, idVars, ixVars>>
ixOthers == <<ckVars, trVars, idVars, rtVars>>

\* ------------------------------------------------------------------- helpers
Min(a, b) == IF a < b THEN a ELSE b
Max(a, b) == IF a > b THEN a ELSE b

\* All sequences over S of length 0..n.
SeqsUpTo(S, n) == UNION {[1..k -> S] : k \in 0..n}

\* str.strip() removes these from both ends.
Whitespace == {"SP", "CR", "LF"}

\* Python's s[i:j] for integers i, j (negative indices count from the end).
PySlice(s, i, j) ==
    LET n  == Len(s)
        lo == IF i < 0 THEN Max(i + n, 0) ELSE Min(i, n)
        hi == IF j < 0 THEN Max(j + n, 0) ELSE Min(j, n)
    IN  IF lo >= hi THEN <<>> ELSE SubSeq(s, lo + 1, hi)

\* s.replace("\r\n", "\n"): left to right, non-overlapping.
RECURSIVE ReplaceCRLF(_)
ReplaceCRLF(s) ==
    IF s = <<>> THEN <<>>
    ELSE IF Len(s) >= 2 /\ s[1] = "CR" /\ s[2] = "LF"
         THEN <<"LF">> \o ReplaceCRLF(SubSeq(s, 3, Len(s)))
         ELSE <<s[1]>> \o ReplaceCRLF(Tail(s))

RECURSIVE LStrip(_)
LStrip(s) ==
    IF s # <<>> /\ s[1] \in Whitespace THEN LStrip(Tail(s)) ELSE s

RECURSIVE RStrip(_)
RStrip(s) ==
    IF s # <<>> /\ s[Len(s)] \in Whitespace
    THEN RStrip(SubSeq(s, 1, Len(s) - 1)) ELSE s

\* str.strip()
Strip(s) == RStrip(LStrip(s))

\* ------------------------------------------------------------------ chunker
\* chunk_text line 107: text.replace("\r\n", "\n").strip()
NormalizeText(text) == Strip(ReplaceCRLF(text))

\* A mutant of WindowEnd: the window is not clipped to the end of the text.
WindowEndUnclipped(start, chunk_size, n) == start + chunk_size

\* chunk_text line 114: end = min(start + chunk_size, n)
WindowEnd(start, chunk_size, n) == Min(start + chunk_size, n)

\* A mutant of NextStart: the overlap is not stepped back over.
NextStartNoOverlap(end, overlap) == Max(0, end)

\* chunk_text line 118: start = max(0, end - overlap)
NextStart(end, overlap) == Max(0, end - overlap)

\* One pass of the while body (lines 114-118) from a loop head with start < n:
\* the chunk appended, the end computed, whether the loop breaks (end == n)
\* and the start the next loop head would have.
LoopBody(text, chunk_size, overlap, start) ==
    LET n   == Len(text)
        end == WindowEnd(start, chunk_size, n)
    IN  [chunk |-> PySlice(text, start, end),
         end   |-> end,
         brk   |-> (end = n),
         start |-> IF end = n THEN start ELSE NextStart(end, overlap)]

\* The while loop of chunk_text from a loop head, for arguments on which it
\* terminates.
RECURSIVE ChunkLoop(_, _, _, _, _)
ChunkLoop(text, chunk_size, overlap, start, chunks) ==
    IF ~(start < Len(text)) THEN chunks
    ELSE LET b == LoopBody(text, chunk_size, overlap, start)
         IN  IF b.brk THEN Append(chunks, b.chunk)
             ELSE ChunkLoop(text, chunk_size, overlap, b.start,
                            Append(chunks, b.chunk))

\* chunk_text(text, chunk_size, overlap), lines 106-119.
chunk_text(text, chunk_size, overlap) ==
    LET t == NormalizeText(text)
    IN  IF t = <<>> THEN <<>> ELSE ChunkLoop(t, chunk_size, overlap, 0, <<>>)

ChunkChars == {"a", "b", "SP", "CR", "LF"}

ChunkInit ==
    /\ ck_in \in SeqsUpTo(ChunkChars, MaxLen)
    /\ ck_size \in -1..MaxSize
    /\ ck_overlap \in -1..MaxSize
    /\ ck_text = <<>>
    /\ ck_start = 0
    /\ ck_end = 0
    /\ ck_chunks = <<>>
    /\ ck_seen = {}
    /\ ck_pc = "call"

\* Lines 107-112: normalise; return [] on empty text, else enter the loop.
ChunkCall ==
    /\ ck_pc = "call"
    /\ ck_text' = NormalizeText(ck_in)
    /\ ck_pc' = IF ck_text' = <<>> THEN "done" ELSE "loop"
    /\ UNCHANGED <<ck_in, ck_size, ck_overlap, ck_start, ck_end, ck_chunks,
                   ck_seen>>
    /\ UNCHANGED ckOthers

\* Lines 113-118: one pass of the loop.  The loop's control state is start
\* alone, so a loop head reached twice with the same start is a loop that
\* never ends.
ChunkIter ==
    /\ ck_pc = "loop"
    /\ LET b == LoopBody(ck_text, ck_size, ck_overlap, ck_start)
       IN  /\ ck_chunks' = Append(ck_chunks, b.chunk)
           /\ ck_end' = b.end
           /\ ck_start' = b.start
           /\ ck_seen' = ck_seen \cup {ck_start}
           /\ ck_pc' = IF b.brk \/ ~(b.start < Len(ck_text)) THEN "done"
                       ELSE IF b.start \in ck_seen' THEN "diverged"
                       ELSE "loop"
    /\ UNCHANGED <<ck_in, ck_size, ck_overlap, ck_text>>
    /\ UNCHANGED ckOthers

ChunkNext == ChunkCall \/ ChunkIter

\* ------------------------------------------------------- chunker: the claims
\* The preconditions of chunk_text: size > 0 and 0 <= overlap < size.
ValidArgs == ck_size > 0 /\ 0 <= ck_overlap /\ ck_overlap < ck_size

\* The chunks joined with the first `overlap` characters of every chunk after
\* the first dropped.
RECURSIVE DropOverlapConcat(_, _)
DropOverlapConcat(chunks, overlap) ==
    IF chunks = <<>> THEN <<>>
    ELSE LET m    == Len(chunks)
             last == chunks[m]
         IN  IF m = 1 THEN last
             ELSE DropOverlapConcat(SubSeq(chunks, 1, m - 1), overlap)
                  \o SubSeq(last, overlap + 1, Len(last))

\* C4 as stated: for a non-empty input and valid (size, overlap), the chunks
\* with the overlap removed rebuild the input string itself, and the end of
\* the last chunk is the input's length.
C4_CoverageOfInput ==
    (ck_pc = "done" /\ ValidArgs /\ ck_in # <<>>)
        => /\ DropOverlapConcat(ck_chunks, ck_overlap) = ck_in
           /\ ck_end = Len(ck_in)

\* C4 as amended: for a non-empty input and valid (size, overlap), the chunks
\* with the overlap removed rebuild the input after CRLF->LF replacement and
\* whitespace trimming (no chunks when that is empty), and the end of the last
\* chunk is the length of that normalised text.
C4_CoverageOfNormalized ==
    (ck_pc = "done" /\ ValidArgs /\ ck_in # <<>>)
        => /\ DropOverlapConcat(ck_chunks, ck_overlap) = NormalizeText(ck_in)
           /\ ck_end = Len(NormalizeText(ck_in))
           /\ (NormalizeText(ck_in) = <<>> <=> ck_chunks = <<>>)

\* C4's case: a returned call with valid arguments, a positive overlap, several
\* chunks, and an input that normalisation changed.
C4_Witness ==
    /\ ck_pc = "done" /\ ValidArgs /\ ck_overlap > 0
    /\ Len(ck_chunks) >= 2
    /\ NormalizeText(ck_in) # ck_in

\* C5: chunk_text terminates for every text and every (size, overlap): a call
\* never enters a loop that does not end.
C5_NeverDiverges == ck_pc # "diverged"

\* C10: for valid (size, overlap) and t the normalised input with n = Len(t) > 0,
\* the k-th chunk is t[k*(size-overlap) : min(k*(size-overlap)+size, n)], the
\* last window is the first whose end is n, every chunk is non-empty, every
\* chunk but the last has length size, consecutive chunks share exactly
\* `overlap` characters, and n <= size yields the single chunk t.
C10_WindowStructure ==
    (ck_pc = "done" /\ ValidArgs /\ NormalizeText(ck_in) # <<>>)
        => LET t    == NormalizeText(ck_in)
               n    == Len(t)
               step == ck_size - ck_overlap
               m    == Len(ck_chunks)
               lo(k) == (k - 1) * step
               hi(k) == IF lo(k) + ck_size < n THEN lo(k) + ck_size ELSE n
           IN  /\ m >= 1
               /\ \A k \in 1..m : ck_chunks[k] = SubSeq(t, lo(k) + 1, hi(k))
               /\ hi(m) = n
               /\ \A k \in 1..(m - 1) : hi(k) < n
               /\ \A k \in 1..m : ck_chunks[k] # <<>>
               /\ \A k \in 1..(m - 1) : Len(ck_chunks[k]) = ck_size
               /\ \A k \in 1..(m - 1) :
                     /\ hi(k) - lo(k + 1) = ck_overlap
                     /\ Len(ck_chunks[k + 1]) > ck_overlap
                     /\ SubSeq(ck_chunks[k], ck_size - ck_overlap + 1, ck_size)
                          = SubSeq(ck_chunks[k + 1], 1, ck_overlap)
               /\ (n <= ck_size => ck_chunks = <<t>>)

\* C10's case: a returned call with valid arguments and a positive overlap
\* whose last chunk was clipped to the end of the text.
C10_Witness ==
    /\ ck_pc = "done" /\ ValidArgs /\ ck_overlap > 0
    /\ Len(ck_chunks) >= 2
    /\ Len(ck_chunks[Len(ck_chunks)]) < ck_size

\* --------------------------------------------------------- translation gate
\* Python's None where a handle is expected, and where a text is expected.
None == "None"
NoneText == <<"None">>

\* Line 10-11: re.search(r'[\u4e00-\u9fff]', text or '')
CJK == {"Z"}
_has_cjk(text) == \E i \in 1..Len(text) : text[i] \in CJK

\* Line 13-14: re.search(r'[A-Za-z]', text or '')
\* The tokens holding an ASCII letter: the letters, and the dotted suffixes.
Latin == {"a", "b", "p", "c", ".txt", ".pdf", ".docx"}
_has_latin(text) == \E i \in 1..Len(text) : text[i] \in Latin

\* get_translators (lines 180-189) in an environment env: whether the
\* transformers import succeeded (_TRANSLATION_OK, lines 22-26) and whether
\* each pipeline(...) construction succeeds.  Both handles, or neither.
get_translators(env) ==
    IF ~env.translation_ok THEN <<None, None>>
    ELSE IF env.zh2en_loads /\ env.en2zh_loads THEN <<"zh2en", "en2zh">>
    ELSE <<None, None>>

\* A mutant of GateProvider: mixed-script text is translated too.
GateProviderMixed(text, target_lang, translators) ==
    IF text = <<>> THEN None
    ELSE IF target_lang = "en"
         THEN IF ~_has_cjk(text) THEN None ELSE translators[1]
    ELSE IF target_lang = "zh"
         THEN IF ~_has_latin(text) THEN None ELSE translators[2]
    ELSE None

\* translate_text lines 201-229 on the stripped text: the provider handle the
\* call goes on to invoke, or None when it returns the text at once.
GateProvider(text, target_lang, translators) ==
    IF text = <<>> THEN None
    ELSE IF target_lang = "en"
         THEN IF ~_has_cjk(text) \/ _has_latin(text) THEN None
              ELSE translators[1]
    ELSE IF target_lang = "zh"
         THEN IF ~_has_latin(text) \/ _has_cjk(text) THEN None
              ELSE translators[2]
    ELSE None

TransChars == {"a", "Z", "SP", "1"}
TargetLangs == {"en", "zh", "fr"}
Envs == [translation_ok : BOOLEAN, zh2en_loads : BOOLEAN, en2zh_loads : BOOLEAN]
\* What a provider may hand back as translation_text.
ProviderOutputs == {<<"a">>, <<"Z">>, <<>>}
MaxText == 3

TransInit ==
    /\ tr_in \in SeqsUpTo(TransChars, MaxText)
    /\ tr_lang \in TargetLangs
    /\ tr_env \in Envs
    /\ tr_text = <<>>
    /\ tr_calls = <<>>
    /\ tr_ret = NoneText
    /\ tr_how = "none"
    /\ tr_pc = "call"

\* Lines 199-212 / 218-223: strip, then return the text or enter the provider.
TranslateCall ==
    /\ tr_pc = "call"
    /\ tr_text' = Strip(tr_in)
    /\ LET h == GateProvider(tr_text', tr_lang, get_translators(tr_env))
       IN  IF h = None
           THEN /\ tr_ret' = tr_text'
                /\ tr_how' = "unchanged"
                /\ tr_pc' = "done"
                /\ UNCHANGED tr_calls
           ELSE /\ tr_calls' = Append(tr_calls, h)
                /\ tr_pc' = "provider"
                /\ UNCHANGED <<tr_ret, tr_how>>
    /\ UNCHANGED <<tr_in, tr_lang, tr_env>>
    /\ UNCHANGED trOthers

\* Lines 214 / 225: the provider returns and its translation_text is returned.
ProviderReturns ==
    /\ tr_pc = "provider"
    /\ \E out \in ProviderOutputs : tr_ret' = out
    /\ tr_how' = "translated"
    /\ tr_pc' = "done"
    /\ UNCHANGED <<tr_in, tr_lang, tr_env, tr_text, tr_calls>>
    /\ UNCHANGED trOthers

\* Lines 215-216 / 226-227: the provider raises; the except returns text.
ProviderRaises ==
    /\ tr_pc = "provider"
    /\ tr_ret' = tr_text
    /\ tr_how' = "fallback"
    /\ tr_pc' = "done"
    /\ UNCHANGED <<tr_in, tr_lang, tr_env, tr_text, tr_calls>>
    /\ UNCHANGED trOthers

TranslateNext == TranslateCall \/ ProviderReturns \/ ProviderRaises

\* ------------------------------------------------------------------ chunk ids
Digits == <<"0", "1", "2", "3", "4", "5", "6", "7", "8", "9">>

\* str(n) for an integer n >= 0, as the f-string of line 156 formats it.
RECURSIVE ToDecimal(_)
ToDecimal(n) ==
    IF n < 10 THEN <<Digits[n + 1]>>
    ELSE ToDecimal(n \div 10) \o <<Digits[(n % 10) + 1]>>

\* A mutant of make_id: the page is left out of the id.
make_id_no_page(filename, page, ch_i) ==
    filename \o <<"|", "c">> \o ToDecimal(ch_i)

\* Line 156: f"{d['filename']}|p{page['page']}|c{ch_i}"
make_id(filename, page, ch_i) ==
    filename \o <<"|", "p">> \o ToDecimal(page) \o <<"|", "c">> \o ToDecimal(ch_i)

MaxStem == 3
MaxPage == 10
MaxChunkIdx == 1

\* File names: a non-empty stem over these characters, then a suffix iter_docs
\* accepts.  ".txt" is one token; a stem may hold it too.
IdChars == {"|", "p", "c", "1", ".txt"}
Filenames ==
    {stem \o <<".txt">> : stem \in SeqsUpTo(IdChars, MaxStem) \ {<<>>}}
Keys == [filename : Filenames, page : 0..MaxPage, chunk_index : 0..MaxChunkIdx]

\* The id of every key.
AllIds == {[key |-> k, id |-> make_id(k.filename, k.page, k.chunk_index)] : k \in Keys}

IdInit == id_key \in Keys /\ id_out = <<>>

\* Line 156 for one (filename, page, chunk index).
FormatId ==
    /\ id_out = <<>>
    /\ id_out' = make_id(id_key.filename, id_key.page, id_key.chunk_index)
    /\ UNCHANGED id_key
    /\ UNCHANGED idOthers

IdNext == FormatId

\* ------------------------------------------------------------------ retrieve
\* The store with no collection named COLLECTION_NAME.
NoCollection == [exists |-> FALSE, items |-> {}]

\* client.get_or_create_collection(name=COLLECTION_NAME, ...)
get_or_create_collection(c) ==
    IF c.exists THEN c ELSE [exists |-> TRUE, items |-> {}]

NoneMeta == [py |-> "None"]
EmptyDict == [py |-> "{}"]

\* Python truthiness of a result document and of a result metadata.
TruthyDoc(d) == d # NoneText /\ d # <<>>
TruthyMeta(m) == m # NoneMeta /\ m # EmptyDict

\* res.get(key, [[]])[0] (lines 172-173) of a response that may lack the key.
FirstRow(has, rows) == IF has THEN rows ELSE <<>>

\* A mutant of FilterPairs: a pair is kept when either half is present.
RECURSIVE FilterPairsEither(_, _)
FilterPairsEither(docs, metas) ==
    IF docs = <<>> \/ metas = <<>> THEN <<>>
    ELSE (IF TruthyDoc(Head(docs)) \/ TruthyMeta(Head(metas))
          THEN << <<Head(docs), Head(metas)>> >> ELSE <<>>)
         \o FilterPairsEither(Tail(docs), Tail(metas))

\* Lines 174-178: for d, m in zip(docs, metas): if d and m: out.append((d, m))
RECURSIVE FilterPairs(_, _)
FilterPairs(docs, metas) ==
    IF docs = <<>> \/ metas = <<>> THEN <<>>
    ELSE (IF TruthyDoc(Head(docs)) /\ TruthyMeta(Head(metas))
          THEN << <<Head(docs), Head(metas)>> >> ELSE <<>>)
         \o FilterPairs(Tail(docs), Tail(metas))

MaxRes == 3
MaxK == 2

ResDocs == {NoneText, <<>>, <<"a">>, <<"b">>}
ResMetas == {NoneMeta, EmptyDict,
             [filename |-> <<"a", ".txt">>, filetype |-> "text", page |-> 0,
              chunk_index |-> 0]}

\* What a store may answer col.query with: parallel rows that may be padded
\* with nulls, of any length, or a response without the key.
Responses ==
    {[has_documents |-> TRUE, documents |-> d, has_metadatas |-> TRUE,
      metadatas |-> m] :
        d \in SeqsUpTo(ResDocs, MaxRes), m \in SeqsUpTo(ResMetas, MaxRes)}
    \cup {[has_documents |-> FALSE, documents |-> <<>>, has_metadatas |-> TRUE,
           metadatas |-> m] : m \in SeqsUpTo(ResMetas, MaxRes)}
    \cup {[has_documents |-> TRUE, documents |-> d, has_metadatas |-> FALSE,
           metadatas |-> <<>>] : d \in SeqsUpTo(ResDocs, MaxRes)}

RetrInit ==
    /\ rt_k \in 1..MaxK
    /\ rt_res \in Responses
    /\ rt_asked = <<>>
    /\ rt_out = <<>>
    /\ rt_pc = "call"

\* retrieve(question, top_k) against a store that answers rt_res.
\* Line 170: col = get_collection(), which creates the collection when the
\* store has none.
RetrieveAcquire ==
    /\ rt_pc = "call"
    /\ coll' = get_or_create_collection(coll)
    /\ rt_pc' = "query"
    /\ UNCHANGED <<rt_k, rt_res, rt_asked, rt_out>>
    /\ UNCHANGED <<rb_pc, rb_dir, rb_col, rb_batch, rb_ret, rb_swallowed, h_pre,
                   h_done, h_added, q_pc, q_k, q_col, q_ret, q_out, q_fresh>>
    /\ UNCHANGED <<ckVars, trVars, idVars>>

\* Between lines 170 and 171 nothing is held: another session's rebuild_index
\* may delete the collection (line 146) ...
OtherDelete ==
    /\ rt_pc = "query"
    /\ coll.exists
    /\ coll' = NoCollection
    /\ UNCHANGED rtVars
    /\ UNCHANGED <<rb_pc, rb_dir, rb_col, rb_batch, rb_ret, rb_swallowed, h_pre,
                   h_done, h_added, q_pc, q_k, q_col, q_ret, q_out, q_fresh>>
    /\ UNCHANGED <<ckVars, trVars, idVars>>

\* ... and create it again (line 149).
OtherCreate ==
    /\ rt_pc = "query"
    /\ ~coll.exists
    /\ coll' = get_or_create_collection(coll)
    /\ UNCHANGED rtVars
    /\ UNCHANGED <<rb_pc, rb_dir, rb_col, rb_batch, rb_ret, rb_swallowed, h_pre,
                   h_done, h_added, q_pc, q_k, q_col, q_ret, q_out, q_fresh>>
    /\ UNCHANGED <<ckVars, trVars, idVars>>

\* Lines 171-178: col.query answers rt_res, then the filter.
RetrieveReturns ==
    /\ rt_pc = "query"
    /\ rt_asked' = Append(rt_asked, rt_k)
    /\ rt_out' = FilterPairs(FirstRow(rt_res.has_documents, rt_res.documents),
                             FirstRow(rt_res.has_metadatas, rt_res.metadatas))
    /\ rt_pc' = "done"
    /\ UNCHANGED <<rt_k, rt_res, coll>>
    /\ UNCHANGED <<rb_pc, rb_dir, rb_col, rb_batch, rb_ret, rb_swallowed, h_pre,
                   h_done, h_added, q_pc, q_k, q_col, q_ret, q_out, q_fresh>>
    /\ UNCHANGED <<ckVars, trVars, idVars>>

\* Line 171: col.query raises, and retrieve with it.
RetrieveRaises ==
    /\ rt_pc = "query"
    /\ rt_asked' = Append(rt_asked, rt_k)
    /\ rt_pc' = "raised"
    /\ UNCHANGED <<rt_k, rt_res, rt_out, coll>>
    /\ UNCHANGED <<rb_pc, rb_dir, rb_col, rb_batch, rb_ret, rb_swallowed, h_pre,
                   h_done, h_added, q_pc, q_k, q_col, q_ret, q_out, q_fresh>>
    /\ UNCHANGED <<ckVars, trVars, idVars>>

RetrNext ==
    \/ RetrieveAcquire \/ OtherDelete \/ OtherCreate
    \/ RetrieveReturns \/ RetrieveRaises

\* ------------------------------------------------------------ document loader
\* A docs_dir is [kind, files]: kind is "dir", "missing" (no such path) or
\* "file" (the path is a regular file); files is the directory's listing in
\* sorted(glob("*")) order, each [name, texts, corrupt, is_file]: texts holds the text of
\* the file (.txt), of each page (.pdf) or of each paragraph (.docx), corrupt
\* says the parser raises, is_file is FALSE for a subdirectory.
DotTokens == {".txt", ".pdf", ".docx"}

\* Path.suffix: the name from its last dot on, or empty when the name has no
\* dot or only a leading one.  (.lower() changes none of the tokens.)
Suffix(name) ==
    LET dots == {i \in 1..Len(name) : name[i] \in DotTokens}
    IN  IF dots = {} THEN <<>>
        ELSE LET i == CHOOSE d \in dots : \A e \in dots : e <= d
             IN  IF i > 1 THEN SubSeq(name, i, Len(name)) ELSE <<>>

\* "\n".join(parts)
RECURSIVE JoinLF(_)
JoinLF(parts) ==
    IF parts = <<>> THEN <<>>
    ELSE IF Len(parts) = 1 THEN parts[1]
    ELSE parts[1] \o <<"LF">> \o JoinLF(Tail(parts))

\* read_pdf (lines 79-85): one page per page of the reader, numbered from 0.
read_pdf(p) == [i \in 1..Len(p.texts) |-> [text |-> p.texts[i], page |-> i - 1]]

\* read_docx (lines 87-90): the paragraphs joined by newlines, as page 0.
read_docx(p) == <<[text |-> JoinLF(p.texts), page |-> 0]>>

\* The loop of iter_docs (lines 94-103) over the rest of the listing: the
\* documents appended so far, or raised when a parser raises (lines 80, 88).
RECURSIVE iter_docs_from(_, _)
iter_docs_from(files, items) ==
    IF files = <<>> THEN [raised |-> FALSE, docs |-> items]
    ELSE LET p == Head(files)
             suffix == Suffix(p.name)
         IN  IF ~p.is_file THEN iter_docs_from(Tail(files), items)
             ELSE IF suffix = <<".txt">>
             THEN iter_docs_from(Tail(files),
                      Append(items, [filename |-> p.name, filetype |-> "text",
                                     pages |-> <<[text |-> p.texts[1], page |-> 0]>>]))
             ELSE IF suffix = <<".pdf">>
             THEN IF p.corrupt THEN [raised |-> TRUE, docs |-> items]
                  ELSE iter_docs_from(Tail(files),
                           Append(items, [filename |-> p.name, filetype |-> "pdf",
                                          pages |-> read_pdf(p)]))
             ELSE IF suffix = <<".docx">>
             THEN IF p.corrupt THEN [raised |-> TRUE, docs |-> items]
                  ELSE iter_docs_from(Tail(files),
                           Append(items, [filename |-> p.name, filetype |-> "docx",
                                          pages |-> read_docx(p)]))
             ELSE iter_docs_from(Tail(files), items)

\* iter_docs(docs_dir): Path.glob("*") of a missing path or of a regular file
\* yields nothing, so the loop runs over an empty listing.
iter_docs(docs_dir) ==
    iter_docs_from(IF docs_dir.kind = "dir" THEN docs_dir.files ELSE <<>>, <<>>)

\* Lines 155-163 for one page: an (id, document, metadata) per chunk.
PageItems(d, page) ==
    LET chs == chunk_text(page.text, CHUNK_SIZE, CHUNK_OVERLAP)
    IN  [i \in 1..Len(chs) |->
            [id   |-> make_id(d.filename, page.page, i - 1),
             doc  |-> chs[i],
             meta |-> [filename |-> d.filename, filetype |-> d.filetype,
                       page |-> page.page, chunk_index |-> i - 1]]]

RECURSIVE DocItems(_, _)
DocItems(d, pages) ==
    IF pages = <<>> THEN <<>>
    ELSE PageItems(d, Head(pages)) \o DocItems(d, Tail(pages))

\* Lines 152-163: the ids, documents and metadatas lists, as one list of items.
RECURSIVE BuildBatch(_)
BuildBatch(docs) ==
    IF docs = <<>> THEN <<>>
    ELSE DocItems(Head(docs), Head(docs).pages) \o BuildBatch(Tail(docs))

Range(f) == {f[i] : i \in DOMAIN f}

\* -------------------------------------------------------- the index (store)
\* The vector store holds at most one collection named COLLECTION_NAME: coll is
\* [exists, items], items the set of (id, doc, meta) it holds, one per id.  A
\* handle to it is "none", "live", or "stale" once that collection was deleted.

Ret(how, chunks, docs) == [how |-> how, chunks |-> chunks, docs |-> docs]

\* col.add(ids, documents, metadatas) on a live handle: an id the collection
\* already holds keeps the record it has.
col_add(c, batch) ==
    [c EXCEPT !.items =
        c.items \cup {b \in Range(batch) : \A x \in c.items : x.id # b.id}]

\* A handle after the collection it names was deleted.
Invalidate(h) == IF h = "live" THEN "stale" ELSE h

\* The rankings col.query may answer with: n_results items of the collection
\* (all of them when it holds fewer), in any order of similarity.
Rankings(items, k) ==
    LET m == Min(k, Cardinality(items))
    IN  {r \in [1..m -> items] : \A i, j \in 1..m : i # j => r[i] # r[j]}

\* ------------------------------------------------------------ rebuild_index
MaxPages == 1
MaxTopK == 2

NameTxt == <<"a", ".txt">>
NamePdf == <<"b", ".pdf">>
NameDocx == <<"c", ".docx">>
TxtTexts == {<<"a">>, <<"b">>, <<"SP">>}
PdfPageTexts == {<<"a">>, <<>>}

TxtListings ==
    {<<>>} \cup {<<[name |-> NameTxt, texts |-> <<t>>, corrupt |-> FALSE,
                      is_file |-> TRUE]>> : t \in TxtTexts}
PdfListings ==
    {<<>>, <<[name |-> NamePdf, texts |-> <<>>, corrupt |-> TRUE,
               is_file |-> TRUE]>>}
    \cup {<<[name |-> NamePdf, texts |-> ps, corrupt |-> FALSE,
              is_file |-> TRUE]>> :
             ps \in SeqsUpTo(PdfPageTexts, MaxPages) \ {<<>>}}

\* A two-paragraph .docx, or a subdirectory of that name.
DocxListings ==
    {<<>>,
     <<[name |-> NameDocx, texts |-> << <<"a">>, <<"b">> >>, corrupt |-> FALSE,
        is_file |-> TRUE]>>,
     <<[name |-> NameDocx, texts |-> <<>>, corrupt |-> FALSE,
        is_file |-> FALSE]>>}

Dirs ==
    {[kind |-> "dir", files |-> a \o b] : a \in TxtListings, b \in PdfListings}
    \cup {[kind |-> "dir", files |-> c] : c \in DocxListings}
    \cup {[kind |-> "missing", files |-> <<>>], [kind |-> "file", files |-> <<>>]}

IndexInit ==
    /\ coll = NoCollection
    /\ rb_pc = "idle"
    /\ rb_dir = [kind |-> "missing", files |-> <<>>]
    /\ rb_col = "none"
    /\ rb_batch = <<>>
    /\ rb_ret = Ret("none", 0, 0)
    /\ rb_swallowed = FALSE
    /\ h_pre = {}
    /\ h_done = [any |-> FALSE, items |-> {}]
    /\ h_added = FALSE
    /\ q_pc = "idle"
    /\ q_k = 1
    /\ q_col = "none"
    /\ q_ret = "none"
    /\ q_out = <<>>
    /\ q_fresh = FALSE

\* The button handler, lines 295-303: a missing folder is reported with
\* st.error and rebuild_index is not called; else rebuild_index(docs_dir).
RebuildClick ==
    /\ rb_pc = "idle"
    /\ \E d \in Dirs :
        /\ rb_dir' = d
        /\ IF d.kind = "missing"
           THEN /\ rb_ret' = Ret("refused", 0, 0)
                /\ rb_pc' = "idle"
                /\ UNCHANGED <<rb_col, rb_batch, rb_swallowed, h_added, q_fresh>>
           ELSE /\ rb_ret' = Ret("none", 0, 0)
                /\ rb_pc' = "delete"
                /\ rb_col' = "none"
                /\ rb_batch' = <<>>
                /\ rb_swallowed' = FALSE
                /\ h_added' = FALSE
                /\ q_fresh' = FALSE
    /\ h_pre' = coll.items
    /\ UNCHANGED <<coll, h_done, q_pc, q_k, q_col, q_ret, q_out>>
    /\ UNCHANGED ixOthers

\* rebuild_index(docs_dir) called as the rebuild interface, on any path.
RebuildCall ==
    /\ rb_pc = "idle"
    /\ \E d \in Dirs : rb_dir' = d
    /\ rb_ret' = Ret("none", 0, 0)
    /\ rb_pc' = "delete"
    /\ rb_col' = "none"
    /\ rb_batch' = <<>>
    /\ rb_swallowed' = FALSE
    /\ h_added' = FALSE
    /\ h_pre' = coll.items
    /\ q_fresh' = FALSE
    /\ UNCHANGED <<coll, h_done, q_pc, q_k, q_col, q_ret, q_out>>
    /\ UNCHANGED ixOthers

\* Line 146: delete_collection succeeds; every handle to the collection is stale.
DeleteOk ==
    /\ rb_pc = "delete"
    /\ coll.exists
    /\ coll' = NoCollection
    /\ q_col' = Invalidate(q_col)
    /\ rb_pc' = "create"
    /\ UNCHANGED <<rb_dir, rb_col, rb_batch, rb_ret, rb_swallowed, h_pre, h_done,
                   h_added, q_pc, q_k, q_ret, q_out, q_fresh>>
    /\ UNCHANGED ixOthers

\* Lines 146-148: delete_collection raises, because there is no collection or
\* because the store failed to delete it; the except swallows either.
DeleteRaises ==
    /\ rb_pc = "delete"
    /\ rb_swallowed' = coll.exists
    /\ rb_pc' = "create"
    /\ UNCHANGED <<coll, rb_dir, rb_col, rb_batch, rb_ret, h_pre, h_done, h_added,
                   q_pc, q_k, q_col, q_ret, q_out, q_fresh>>
    /\ UNCHANGED ixOthers

\* Line 149: col = client.get_or_create_collection(...)
CreateStep ==
    /\ rb_pc = "create"
    /\ coll' = get_or_create_collection(coll)
    /\ rb_col' = "live"
    /\ rb_pc' = "load"
    /\ UNCHANGED <<rb_dir, rb_batch, rb_ret, rb_swallowed, h_pre, h_done, h_added,
                   q_pc, q_k, q_col, q_ret, q_out, q_fresh>>
    /\ UNCHANGED ixOthers

\* Lines 151-167 up to the add: iter_docs raises and the call is over, or the
\* lists are built; with no ids the call returns (0, len(docs)) at once.
LoadStep ==
    /\ rb_pc = "load"
    /\ LET r == iter_docs(rb_dir)
           batch == BuildBatch(r.docs)
       IN  IF r.raised
           THEN /\ rb_ret' = Ret("raised", 0, 0)
                /\ rb_pc' = "idle"
                /\ UNCHANGED <<rb_batch, h_done>>
           ELSE /\ rb_batch' = batch
                /\ IF batch = <<>>
                   THEN /\ rb_ret' = Ret("returned", 0, Len(r.docs))
                        /\ rb_pc' = "idle"
                        /\ h_done' = [any |-> TRUE, items |-> {}]
                   ELSE /\ rb_pc' = "add"
                        /\ UNCHANGED <<rb_ret, h_done>>
    /\ UNCHANGED <<coll, rb_dir, rb_col, rb_swallowed, h_pre, h_added, q_pc, q_k,
                   q_col, q_ret, q_out, q_fresh>>
    /\ UNCHANGED ixOthers

\* Lines 166-167: col.add stores the batch and the call returns the counts.
AddOk ==
    /\ rb_pc = "add"
    /\ rb_col = "live"
    /\ coll' = col_add(coll, rb_batch)
    /\ rb_ret' = Ret("returned", Len(rb_batch), Len(iter_docs(rb_dir).docs))
    /\ rb_pc' = "idle"
    /\ h_done' = [any |-> TRUE, items |-> Range(rb_batch)]
    /\ h_added' = TRUE
    /\ UNCHANGED <<rb_dir, rb_col, rb_batch, rb_swallowed, h_pre, q_pc, q_k,
                   q_col, q_ret, q_out, q_fresh>>
    /\ UNCHANGED ixOthers

\* Line 166: col.add raises (the store or the embedding provider failed); the
\* exception leaves rebuild_index.
AddRaises ==
    /\ rb_pc = "add"
    /\ rb_ret' = Ret("raised", 0, 0)
    /\ rb_pc' = "idle"
    /\ UNCHANGED <<coll, rb_dir, rb_col, rb_batch, rb_swallowed, h_pre, h_done,
                   h_added, q_pc, q_k, q_col, q_ret, q_out, q_fresh>>
    /\ UNCHANGED ixOthers

\* ------------------------------------------------------------------ retrieve
\* Line 170: col = get_collection(), which creates the collection when absent.
RetrieveBegin ==
    /\ q_pc = "idle"
    /\ \E k \in 1..MaxTopK : q_k' = k
    /\ coll' = get_or_create_collection(coll)
    /\ q_col' = "live"
    /\ q_pc' = "query"
    /\ q_ret' = "none"
    /\ q_out' = <<>>
    /\ q_fresh' = (rb_pc = "idle" /\ h_added)
    /\ UNCHANGED <<rb_pc, rb_dir, rb_col, rb_batch, rb_ret, rb_swallowed, h_pre,
                   h_done, h_added>>
    /\ UNCHANGED ixOthers

\* Lines 171-178: one col.query on a live handle, then the filter.
RetrieveQuery ==
    /\ q_pc = "query"
    /\ q_col = "live"
    /\ \E r \in Rankings(coll.items, q_k) :
          q_out' = FilterPairs([i \in DOMAIN r |-> r[i].doc],
                               [i \in DOMAIN r |-> r[i].meta])
    /\ q_ret' = "returned"
    /\ q_pc' = "idle"
    /\ UNCHANGED <<coll, rb_pc, rb_dir, rb_col, rb_batch, rb_ret, rb_swallowed,
                   h_pre, h_done, h_added, q_k, q_col, q_fresh>>
    /\ UNCHANGED ixOthers

\* Line 171 on a stale handle: the store raises, and retrieve with it.
RetrieveStale ==
    /\ q_pc = "query"
    /\ q_col = "stale"
    /\ q_ret' = "raised"
    /\ q_pc' = "idle"
    /\ UNCHANGED <<coll, rb_pc, rb_dir, rb_col, rb_batch, rb_ret, rb_swallowed,
                   h_pre, h_done, h_added, q_k, q_col, q_out, q_fresh>>
    /\ UNCHANGED ixOthers

IndexNext ==
    \/ RebuildClick \/ RebuildCall
    \/ DeleteOk \/ DeleteRaises \/ CreateStep \/ LoadStep \/ AddOk \/ AddRaises
    \/ RetrieveBegin \/ RetrieveQuery \/ RetrieveStale

\* --------------------------------------------------------- specifications
\* The parked values of each part while another part runs.
ChunkIdle ==
    /\ ck_in = <<>> /\ ck_size = 1 /\ ck_overlap = 0 /\ ck_text = <<>>
    /\ ck_start = 0 /\ ck_end = 0 /\ ck_chunks = <<>> /\ ck_seen = {}
    /\ ck_pc = "done"

TransIdle ==
    /\ tr_in = <<>> /\ tr_lang = "en"
    /\ tr_env = [translation_ok |-> FALSE, zh2en_loads |-> FALSE,
                 en2zh_loads |-> FALSE]
    /\ tr_text = <<>> /\ tr_calls = <<>> /\ tr_ret = NoneText
    /\ tr_how = "none" /\ tr_pc = "done"

IdIdle == id_key = [filename |-> <<>>, page |-> 0, chunk_index |-> 0]
          /\ id_out = <<>>

RetrIdle ==
    /\ rt_k = 1
    /\ rt_res = [has_documents |-> FALSE, documents |-> <<>>,
                 has_metadatas |-> FALSE, metadatas |-> <<>>]
    /\ rt_asked = <<>> /\ rt_out = <<>> /\ rt_pc = "done"

\* The index: rebuilds and queries, interleaved at the store's operations.
Init == IndexInit /\ ChunkIdle /\ TransIdle /\ IdIdle /\ RetrIdle
Next == IndexNext
Spec == Init /\ [][Next]_vars

\* chunk_text on every bounded text and (size, overlap).
InitChunk == ChunkInit /\ IndexInit /\ TransIdle /\ IdIdle /\ RetrIdle
NextChunk == ChunkNext
SpecChunk == InitChunk /\ [][NextChunk]_vars

\* ------------------------------------------------------ the index: the claims
\* C1: whenever no rebuild is in progress, the collection either does not exist
\* or holds exactly the chunks (id, text, metadata) of the last rebuild that
\* completed.
C1_ExactlyLastRebuild ==
    (rb_pc = "idle" /\ h_done.any /\ coll.exists) => coll.items = h_done.items

\* C2: a rebuild requested for a missing or invalid docs directory does not
\* return normally (it is refused or it raises) and leaves the collection's
\* contents as they were.
C2_InvalidDirAborts ==
    (rb_pc = "idle" /\ rb_ret.how # "none" /\ rb_dir.kind \in {"missing", "file"})
        => /\ rb_ret.how \in {"refused", "raised"}
           /\ coll.items = h_pre

\* The (document, metadata) pairs of a set of items.
PairsOf(items) == {<<x.doc, x.meta>> : x \in items}

\* C3: a retrieve that begins after a rebuild completed its add step (and that
\* no later rebuild overlaps) returns, sees only chunks of that rebuild, and
\* sees all of them when top_k allows.
C3_QueryAfterRebuildSeesNew ==
    (q_pc = "idle" /\ q_ret # "none" /\ q_fresh)
        => /\ q_ret = "returned"
           /\ Range(q_out) \subseteq PairsOf(Range(rb_batch))
           /\ (q_k >= Len(rb_batch) => Range(q_out) = PairsOf(Range(rb_batch)))

\* Line 156 on every bounded (filename, page, chunk index).
InitIds == IdInit /\ IndexInit /\ ChunkIdle /\ TransIdle /\ RetrIdle
NextIds == IdNext
SpecIds == InitIds /\ [][NextIds]_vars

\* C9: distinct (filename, page, chunk_index) triples never get the same id:
\* every triple whose id is the one formatted is the triple it was formatted for.
C9_IdsDistinct ==
    id_out # <<>> => \A e \in AllIds : e.id = id_out => e.key = id_key

\* C9's case: the id of a file whose name itself ends like an id.
C9_Witness ==
    /\ id_out # <<>>
    /\ Len(id_key.filename) >= 3
    /\ SubSeq(id_key.filename, 1, 3) = <<"|", "p", "1">>
    /\ id_key.page = 10

\* retrieve's filter on every bounded store response.
InitRetr == RetrInit /\ IndexInit /\ ChunkIdle /\ TransIdle /\ IdIdle
NextRetr == RetrNext
SpecRetr == InitRetr /\ [][NextRetr]_vars

\* translate_text on every bounded text, target and environment.
InitTrans == TransInit /\ IndexInit /\ ChunkIdle /\ IdIdle /\ RetrIdle
NextTrans == TranslateNext
SpecTrans == InitTrans /\ [][NextTrans]_vars

\* C8: retrieve issues exactly one store query (for top_k results) and returns
\* exactly the pairs of the store's parallel rows whose document and metadata
\* are both non-empty and non-null, in the store's order, so at most top_k
\* pairs when the store returned at most top_k.  A call the store's query
\* raises in has issued that one query too.
C8_FilteredSubsequence ==
    /\ rt_pc = "raised" => rt_asked = <<rt_k>> /\ rt_out = <<>>
    /\ (rt_pc = "done" /\ rt_asked # <<>>)
        => LET docs  == IF rt_res.has_documents THEN rt_res.documents ELSE <<>>
               metas == IF rt_res.has_metadatas THEN rt_res.metadatas ELSE <<>>
               n     == IF Len(docs) < Len(metas) THEN Len(docs) ELSE Len(metas)
               kept  == {i \in 1..n : /\ docs[i] \notin {NoneText, <<>>}
                                      /\ metas[i] \notin {NoneMeta, EmptyDict}}
               rank(i) == Cardinality({j \in kept : j <= i})
           IN  /\ rt_asked = <<rt_k>>
               /\ Len(rt_out) = Cardinality(kept)
               /\ \A i \in kept : rt_out[rank(i)] = <<docs[i], metas[i]>>
               /\ (n <= rt_k => Len(rt_out) <= rt_k)

\* C8's case: a response with a padded pair ahead of two kept pairs that differ.
C8_Witness ==
    /\ rt_pc = "done" /\ rt_asked # <<>>
    /\ Len(rt_res.documents) = 3 /\ Len(rt_res.metadatas) = 3
    /\ rt_res.documents[1] = NoneText
    /\ Len(rt_out) = 2
    /\ rt_out[1] # rt_out[2]

\* C6: for target en or zh, translate_text invokes a provider exactly when the
\* text is non-blank and is (for en) CJK without Latin with the zh->en provider
\* at hand, or (for zh) Latin without CJK with the en->zh provider at hand; it
\* invokes that provider only, once.  A provider is at hand when
\* get_translators hands translate_text a handle for it.
C6_GateDecisionTable ==
    (tr_pc # "call" /\ tr_lang \in {"en", "zh"})
        => LET nonblank == \E i \in 1..Len(tr_in) : tr_in[i] \notin Whitespace
               cjk      == \E i \in 1..Len(tr_in) : tr_in[i] = "Z"
               latin    == \E i \in 1..Len(tr_in) : tr_in[i] \in {"a", "b"}
               zh2en    == get_translators(tr_env)[1]
               en2zh    == get_translators(tr_env)[2]
           IN  tr_calls =
                 IF nonblank /\ tr_lang = "en" /\ cjk /\ ~latin /\ zh2en # None
                 THEN <<"zh2en">>
                 ELSE IF nonblank /\ tr_lang = "zh" /\ latin /\ ~cjk /\ en2zh # None
                 THEN <<"en2zh">>
                 ELSE <<>>

\* C6's case: a CJK-only text for target en whose provider was invoked and
\* has returned.
C6_Witness ==
    /\ tr_pc = "done" /\ tr_lang = "en" /\ tr_calls = <<"zh2en">>
    /\ tr_how = "translated"
    /\ tr_in = <<"SP", "Z", "1">>

\* C7: translate_text never raises, and whenever it does not return a
\* provider's translation it returns the text it was given, unchanged.
C7_PassthroughOriginal ==
    (tr_pc = "done" /\ tr_how # "none")
        => /\ tr_how \in {"unchanged", "translated", "fallback"}
           /\ (tr_how # "translated" => tr_ret = tr_in)

====
